---- MODULE Spec2Model ----
(***************************************************************************)
(* A model of scripts/linkedin_photo_prepare.py: the process() pipeline     *)
(* (load, optional resize, background keying, gradient generation,          *)
(* composite, face detection, tie overlay, save) and the pure functions it  *)
(* is built from.                                                           *)
(*                                                                          *)
(* Python floats are IEEE-754 binary64 and numpy float32 is binary32; the   *)
(* code truncates their products with int() and astype(uint8), so the       *)
(* arithmetic is modelled bit for bit: a non-negative binary floating-point *)
(* number is a record [m, e] standing for m * 2^e, its significand m a      *)
(* sequence of bits, least significant first.                               *)
(***************************************************************************)
EXTENDS Integers, Sequences, FiniteSets, TLC

\* Optional[T]: None is the empty sequence, a value v is <<v>>
None == <<>>

Some(v) == <<v>>

Max(a, b) == IF a >= b THEN a ELSE b

Min(a, b) == IF a <= b THEN a ELSE b

Max0(a) == Max(a, 0)

----------------------------------------------------------------------------
(* Natural numbers of any size, as sequences of LimbBits-bit limbs, least   *)
(* significant first.                                                       *)

LimbBits == 15

Base == 2 ^ LimbBits

RECURSIVE LimbsOf(_)
LimbsOf(n) == IF n = 0 THEN <<>> ELSE <<n % Base>> \o LimbsOf(n \div Base)

RECURSIVE NatOf(_)
NatOf(b) == IF b = <<>> THEN 0 ELSE b[1] + Base * NatOf(Tail(b))

\* without its leading zero limbs
RECURSIVE Strip(_)
Strip(b) ==
    IF b # <<>> /\ b[Len(b)] = 0 THEN Strip(SubSeq(b, 1, Len(b) - 1)) ELSE b

Zeros(k) == [i \in 1..k |-> 0]

Rest(b) == IF b = <<>> THEN <<>> ELSE Tail(b)

Low(b) == IF b = <<>> THEN 0 ELSE b[1]

RECURSIVE AddC(_, _, _)
AddC(a, b, c) ==
    IF a = <<>> /\ b = <<>>
    THEN (IF c = 0 THEN <<>> ELSE <<c>>)
    ELSE LET s == Low(a) + Low(b) + c
         IN  <<s % Base>> \o AddC(Rest(a), Rest(b), s \div Base)

\* a - b - c for a >= b + c
RECURSIVE SubC(_, _, _)
SubC(a, b, c) ==
    IF a = <<>>
    THEN <<>>
    ELSE LET d == Low(a) - Low(b) - c
         IN  <<d % Base>> \o SubC(Rest(a), Rest(b), IF d < 0 THEN 1 ELSE 0)

\* a * n + c for naturals n, c < Base
RECURSIVE MulC(_, _, _)
MulC(a, n, c) ==
    IF a = <<>>
    THEN LimbsOf(c)
    ELSE LET s == a[1] * n + c
         IN  <<s % Base>> \o MulC(Tail(a), n, s \div Base)

\* the number of bits of a limb
RECURSIVE LimbLen(_)
LimbLen(d) == IF d = 0 THEN 0 ELSE 1 + LimbLen(d \div 2)

\* the number of bits of a number without leading zero limbs
BitLen(m) ==
    IF m = <<>> THEN 0 ELSE LimbBits * (Len(m) - 1) + LimbLen(m[Len(m)])

\* bit j (from 0) of m
BitAt(m, j) ==
    LET i == j \div LimbBits + 1
    IN  IF i > Len(m) THEN 0 ELSE (m[i] \div 2 ^ (j % LimbBits)) % 2

\* m * 2^k
ShiftLeft(m, k) == Zeros(k \div LimbBits) \o MulC(m, 2 ^ (k % LimbBits), 0)

\* m \div 2^k
ShiftRight(m, k) ==
    LET q == k \div LimbBits
        s == k % LimbBits
        limb(i) == IF i > Len(m) THEN 0 ELSE m[i]
    IN  Strip([i \in 1..Max0(Len(m) - q) |->
                 limb(i + q) \div 2 ^ s
                 + (limb(i + q + 1) % 2 ^ s) * 2 ^ (LimbBits - s)])

\* whether any of the k lowest bits of m is set
AnyLowBit(m, k) ==
    \/ \E i \in 1..(k \div LimbBits) : i <= Len(m) /\ m[i] # 0
    \/ /\ k \div LimbBits + 1 <= Len(m)
       /\ m[k \div LimbBits + 1] % 2 ^ (k % LimbBits) # 0

----------------------------------------------------------------------------
(* Binary floating point with a p-bit significand, round to nearest, ties   *)
(* to even: [m, e] stands for m * 2^e.  The values of this program are far  *)
(* from the exponent limits, so neither overflow nor subnormals occur.      *)

DoubleBits == 53

SingleBits == 24

FZero == [m |-> <<>>, e |-> 0]

FromInt(n) == [m |-> LimbsOf(n), e |-> 0]

\* the exact value x, rounded to p significant bits
RoundTo(x, p) ==
    LET m == Strip(x.m)
        k == BitLen(m) - p
    IN  IF m = <<>> THEN FZero
        ELSE IF k <= 0 THEN [m |-> m, e |-> x.e]
        ELSE LET kept == ShiftRight(m, k)
                 up   == /\ BitAt(m, k - 1) = 1
                         /\ (AnyLowBit(m, k - 1) \/ BitAt(m, k) = 1)
             IN  [m |-> IF up THEN AddC(kept, <<1>>, 0) ELSE kept,
                  e |-> x.e + k]

\* long division, a limb a step: the quotient down to more than p + 1
\* significant bits, then a sticky limb for a non-zero remainder
RECURSIVE DivStep(_, _, _, _, _)
DivStep(r, b, acc, f, p) ==
    IF r = 0 THEN [m |-> acc, e |-> -f]
    ELSE IF BitLen(acc) >= p + 2 THEN [m |-> <<1>> \o acc, e |-> -(f + LimbBits)]
    ELSE LET d == (r * Base) \div b
         IN  DivStep((r * Base) % b, b,
                     IF acc = <<>> /\ d = 0 THEN <<>> ELSE <<d>> \o acc,
                     f + LimbBits, p)

\* a / b for naturals a and 0 < b < 2 * Base, correctly rounded to p bits
FDiv(a, b, p) == RoundTo(DivStep(a % b, b, LimbsOf(a \div b), 0, p), p)

\* the exact sum and difference (x >= y) of two numbers
FAddExact(x, y) ==
    LET e == IF x.e < y.e THEN x.e ELSE y.e
    IN  [m |-> AddC(ShiftLeft(x.m, x.e - e), ShiftLeft(y.m, y.e - e), 0),
         e |-> e]

FSubExact(x, y) ==
    LET e == IF x.e < y.e THEN x.e ELSE y.e
    IN  [m |-> SubC(ShiftLeft(x.m, x.e - e), ShiftLeft(y.m, y.e - e), 0),
         e |-> e]

FAdd(x, y, p) == RoundTo(FAddExact(x, y), p)

FSub(x, y, p) == RoundTo(FSubExact(x, y), p)

\* x * n for a natural n < Base, which the format holds exactly
FMulInt(x, n, p) == RoundTo([m |-> MulC(x.m, n, 0), e |-> x.e], p)

\* int(x), astype(uint8): truncation toward zero
Trunc(x) ==
    IF x.e >= 0 THEN NatOf(ShiftLeft(x.m, x.e))
    ELSE NatOf(ShiftRight(x.m, -x.e))

\* int(n * c) for an int n >= 0 and the Python float literal c = num / den
\* (the double nearest to the decimal literal is the correctly rounded
\* quotient)
IntTimes(n, num, den) ==
    Trunc(FMulInt(FDiv(num, den, DoubleBits), n, DoubleBits))

\* int(a * (n / d)) for ints a >= 0, d > 0 and any int n: the true division
\* is rounded, then the product, then int() truncates toward zero
IntScale(a, n, d) ==
    IF n >= 0
    THEN Trunc(FMulInt(FDiv(n, d, DoubleBits), a, DoubleBits))
    ELSE -Trunc(FMulInt(FDiv(-n, d, DoubleBits), a, DoubleBits))

----------------------------------------------------------------------------
(* Bounds of the model. *)

\* input photos are DimStep*i x DimStep*j pixels, i, j in 1..MaxDim
DimStep == 40

MaxDim == 3

\* --width / --height are absent, -1, 0 or DimStep*k, k in 1..MaxReq
MaxReq == 3

\* the detector reports at most MaxFaces boxes, each side MinSize..MinSize+FaceGrow
MaxFaces == 2

FaceGrow == 1

----------------------------------------------------------------------------
(* process() and the functions it calls. *)

VARIABLES
    pc,          \* the stage process() runs next, or "done" / "failed"
    input_file,  \* the photo at input_path: [w, h]
    width,       \* the --width argument, None when absent
    height,      \* the --height argument, None when absent
    heap,        \* the image buffers created so far: [w, h, tie]
    base_img,    \* process()'s locals: indices into heap, None when unbound
    subject,
    bg,
    composed,
    face_box,    \* None, or the FaceBox detection returned
    with_tie,
    output,      \* the file at output_path: None, or the image saved
    writes,      \* how many times output_path was written
    log,         \* the stages attempted so far, in order
    call,        \* a direct call of one function: its name and arguments
    ret          \* what that call returned, None before it returns

pvars == <<pc, input_file, width, height, heap, base_img, subject, bg,
           composed, face_box, with_tie, output, writes, log>>

vars == <<pvars, call, ret>>

Stages ==
    <<"load", "resize", "key", "gradient", "composite", "detect", "tie", "save">>

\* a process() that saves right after keying
StageAfterEarlySave(s) ==
    CASE s = "load"      -> "resize"
      [] s = "resize"    -> "key"
      [] s = "key"       -> "save"
      [] s = "gradient"  -> "composite"
      [] s = "composite" -> "detect"
      [] s = "detect"    -> "tie"
      [] s = "tie"       -> "save"
      [] s = "save"      -> "done"

\* the statement after stage s in process()
StageAfter(s) ==
    CASE s = "load"      -> "resize"
      [] s = "resize"    -> "key"
      [] s = "key"       -> "gradient"
      [] s = "gradient"  -> "composite"
      [] s = "composite" -> "detect"
      [] s = "detect"    -> "tie"
      [] s = "tie"       -> "save"
      [] s = "save"      -> "done"

\* Python truthiness of an Optional[int]
Truthy(v) == v # None /\ v[1] # 0

\* the size process() asks resize for; None when it does not resize
TargetSize(W0, H0, w, h) ==
    IF Truthy(w) \/ Truthy(h)
    THEN Some(<<IF Truthy(w) THEN w[1] ELSE IntScale(W0, h[1], H0),
                IF Truthy(h) THEN h[1] ELSE IntScale(H0, w[1], W0)>>)
    ELSE None

\* Image.resize raises ValueError unless both sides are at least 1
ResizeRaises(size) == size[1] < 1 \/ size[2] < 1

----------------------------------------------------------------------------
(* FaceBox and detect_primary_face_bbox. *)

\* an image buffer: its size and the tie drawn on it, if any
NewImage(w, h) == [w |-> w, h |-> h, tie |-> None]

\* the minSize=(80, 80) handed to detectMultiScale
MinSize == 80

FaceBox(x, y, w, h) == [x |-> x, y |-> y, width |-> w, height |-> h]

\* the key of max(): f[2] * f[3]
Area(f) == f.width * f.height

\* a selection that keeps the first box reported
MaxByAreaFirst(best, rest) == best

\* max(faces, key=...): the first box of the largest area
RECURSIVE MaxByArea(_, _)
MaxByArea(best, rest) ==
    IF rest = <<>> THEN best
    ELSE MaxByArea(IF Area(rest[1]) > Area(best) THEN rest[1] ELSE best,
                   Tail(rest))

\* the selection of detect_primary_face_bbox from what the cascade reports
PrimaryFace(faces) ==
    IF Len(faces) = 0 THEN None ELSE Some(MaxByArea(faces[1], Tail(faces)))

\* the boxes detectMultiScale can report on a w x h image: inside the image,
\* each side at least MinSize
Boxes(w, h) ==
    {FaceBox(x, y, bw, bh) :
        x \in 0..1, y \in 0..(h - MinSize),
        bw \in MinSize..(MinSize + FaceGrow),
        bh \in MinSize..(MinSize + FaceGrow)}

BoxesIn(w, h) ==
    {b \in Boxes(w, h) : b.x + b.width <= w /\ b.y + b.height <= h}

\* in process(): boxes in the image's corners
CornerBoxes(w, h) ==
    {b \in BoxesIn(w, h) : b.x \in {0, w - b.width} /\ b.y \in {0, h - b.height}}

----------------------------------------------------------------------------
(* draw_tie: the geometry it draws. *)

\* FaceBox.center_bottom
center_bottom(f) ==
    <<f.x + f.width \div 2,
      Trunc(FAdd(FromInt(f.y),
                 FMulInt(FDiv(95, 100, DoubleBits), f.height, DoubleBits),
                 DoubleBits))>>

\* a fallback anchored at the middle of the image
FallbackAnchorMiddle(w, h) == <<w \div 2, h \div 2>>

\* no face box: cx = w // 2, cy = int(h * 0.42)
FallbackAnchor(w, h) == <<w \div 2, IntTimes(h, 42, 100)>>

\* a tip that is not clipped to the image
TipYUnclipped(h, knot_bottom_y, tie_length) == knot_bottom_y + tie_length

\* the blade's tip: tip_y = min(h - 6, knot_bottom_y + tie_length)
TipY(h, knot_bottom_y, tie_length) == Min(h - 6, knot_bottom_y + tie_length)

DrawTie(w, h, box) ==
    LET anchor == IF box = None
                  THEN FallbackAnchor(w, h)
                  ELSE center_bottom(box[1])
        cx == anchor[1]
        cy == anchor[2]
        face_height == IF box = None THEN IntTimes(h, 22, 100) ELSE box[1].height
        knot_height == Max(12, IntTimes(face_height, 12, 100))
        knot_width == Max(16, IntTimes(face_height, 16, 100))
        tie_length == Max(IntTimes(h, 20, 100), IntTimes(face_height, 12, 10))
        tie_bottom_width == Max(26, IntTimes(knot_width, 16, 10))
        knot_top_y == cy + IntTimes(face_height, 2, 100)
        knot_bottom_y == knot_top_y + knot_height
        half_knot_w == knot_width \div 2
        tip_y == TipY(h, knot_bottom_y, tie_length)
        blade_half_top == IntTimes(knot_width, 6, 10)
        blade_half_bottom == tie_bottom_width \div 2
        shoulder_y == tip_y - IntTimes(tie_bottom_width, 4, 10)
    IN  [cx |-> cx, cy |-> cy, face_height |-> face_height,
         knot_height |-> knot_height, knot_width |-> knot_width,
         tie_length |-> tie_length, tie_bottom_width |-> tie_bottom_width,
         knot_top_y |-> knot_top_y, knot_bottom_y |-> knot_bottom_y,
         tip_y |-> tip_y, shoulder_y |-> shoulder_y,
         knot_points |->
             <<<<cx - half_knot_w, knot_top_y>>,
               <<cx + half_knot_w, knot_top_y>>,
               <<cx + IntTimes(half_knot_w, 7, 10), knot_bottom_y>>,
               <<cx - IntTimes(half_knot_w, 7, 10), knot_bottom_y>>>>,
         blade_points |->
             <<<<cx - blade_half_top, knot_bottom_y>>,
               <<cx + blade_half_top, knot_bottom_y>>,
               <<cx + blade_half_bottom, shoulder_y>>,
               <<cx, tip_y>>,
               <<cx - blade_half_bottom, shoulder_y>>>>,
         highlight_poly |->
             <<<<cx - blade_half_top + 1, knot_bottom_y + 2>>,
               <<cx - blade_half_top + 1,
                 tip_y - IntTimes(tie_bottom_width, 45, 100)>>,
               <<cx - 2, tip_y - 4>>,
               <<cx - 2, knot_bottom_y + 2>>>>]

\* draw_tie draws on img = image_rgba.copy().convert("RGBA") and returns img
draw_tie(image_rgba, box) ==
    [w |-> image_rgba.w, h |-> image_rgba.h,
     tie |-> Some(DrawTie(image_rgba.w, image_rgba.h, box))]

----------------------------------------------------------------------------
(* generate_linkedin_gradient_background. *)

\* one channel of color = (1 - t) * top + t * bottom, then astype(uint8):
\* t and 1 - t are Python floats, top and bottom float32 arrays, so both
\* factors are cast to float32 and the products and the sum are float32
GradientChannel(row, h, top, bottom) ==
    LET t   == FDiv(row, Max(1, h - 1), DoubleBits)
        omt == FSub(FromInt(1), t, DoubleBits)
        a   == FMulInt(RoundTo(omt, SingleBits), top, SingleBits)
        b   == FMulInt(RoundTo(t, SingleBits), bottom, SingleBits)
    IN  Trunc(FAdd(a, b, SingleBits))

\* the RGBA image, gradient[row][col], rows and columns counted from 0
generate_linkedin_gradient_background(w, h, top_color, bottom_color) ==
    LET top    == top_color \o <<255>>
        bottom == bottom_color \o <<255>>
        color  == [row \in 0..(h - 1) |->
                     [c \in 1..4 |-> GradientChannel(row, h, top[c], bottom[c])]]
    IN  [row \in 0..(h - 1) |-> [col \in 0..(w - 1) |-> color[row]]]

\* the default top_color and bottom_color
DefaultTop == <<234, 243, 255>>

DefaultBottom == <<191, 215, 255>>

----------------------------------------------------------------------------
(* remove_background_keep_subject, pixel by pixel.  An image is             *)
(* [w, h, px] with px[y][x] = <<r, g, b>>; a mask holds a value in 0..255  *)
(* for every pixel.                                                         *)

\* n / d rounded to the nearest integer, ties to even (cvRound)
RoundDiv(n, d) ==
    LET q == n \div d
        r == n % d
    IN  IF 2 * r > d \/ (2 * r = d /\ q % 2 = 1) THEN q + 1 ELSE q

\* cv2.cvtColor(..., COLOR_BGR2HSV) on 8-bit pixels: H in 0..180, S and V in
\* 0..255, in 12-bit fixed point with the tables (255 << 12) / v and
\* (180 << 12) / (6 * diff)
RGB2HSV(px) ==
    LET r    == px[1]
        g    == px[2]
        b    == px[3]
        v    == Max(r, Max(g, b))
        vmin == Min(r, Min(g, b))
        diff == v - vmin
        sdiv == IF v = 0 THEN 0 ELSE RoundDiv(255 * 2 ^ 12, v)
        hdiv == IF diff = 0 THEN 0 ELSE RoundDiv(180 * 2 ^ 12, 6 * diff)
        s    == (diff * sdiv + 2 ^ 11) \div 2 ^ 12
        h0   == IF v = r THEN g - b
                ELSE IF v = g THEN b - r + 2 * diff
                ELSE r - g + 4 * diff
        h1   == (h0 * hdiv + 2 ^ 11) \div 2 ^ 12
    IN  <<IF h1 < 0 THEN h1 + 180 ELSE h1, s, v>>

\* cv2.inRange: 255 where every channel is within the bounds, else 0
inRange(hsv, lower, upper) ==
    IF \A c \in 1..3 : lower[c] <= hsv[c] /\ hsv[c] <= upper[c] THEN 255 ELSE 0

lower_red1 == <<0, 60, 40>>

upper_red1 == <<10, 255, 255>>

lower_red2 == <<170, 60, 40>>

upper_red2 == <<180, 255, 255>>

\* a keying that thresholds the low hue band only
RedMaskLowBand(px) == inRange(RGB2HSV(px), lower_red1, upper_red1)

\* red_bg_mask = cv2.bitwise_or(mask1, mask2), at one pixel
RedMask(px) ==
    Max(inRange(RGB2HSV(px), lower_red1, upper_red1),
        inRange(RGB2HSV(px), lower_red2, upper_red2))

SetMax(S) == CHOOSE v \in S : \A u \in S : u <= v

SetMin(S) == CHOOSE v \in S : \A u \in S : v <= u

\* cv2.getStructuringElement(cv2.MORPH_ELLIPSE, (7, 7)), as offsets
\* <<dy, dx>> from its centre: rows 0 and +-1 are full, rows +-2 lose a
\* column each side, rows +-3 hold the centre column only
Ellipse7 ==
    {d \in (-3..3) \X (-3..3) :
        LET ay == IF d[1] < 0 THEN -d[1] ELSE d[1]
            ax == IF d[2] < 0 THEN -d[2] ELSE d[2]
        IN  \/ ay <= 1
            \/ ay = 2 /\ ax <= 2
            \/ ay = 3 /\ ax = 0}

\* cv2.getStructuringElement(cv2.MORPH_RECT, (25, 25))
Rect25 == (-12..12) \X (-12..12)

\* an array as the sequence of its values (computed once)
Array(f) == f \o <<>>

RECURSIVE SumSeq(_)
SumSeq(s) == IF s = <<>> THEN 0 ELSE s[1] + SumSeq(Tail(s))

\* a mask is kept row by row in one sequence: pixel (y, x) is entry y * w + x + 1
At(m, w, y, x) == m[y * w + x + 1]

RowOf(i, w) == (i - 1) \div w

ColOf(i, w) == (i - 1) % w

\* the pixels of a w x h image under kernel k centred on pixel i
Under(k, i, w, h) ==
    {j \in 1..(w * h) : <<RowOf(j, w) - RowOf(i, w), ColOf(j, w) - ColOf(i, w)>> \in k}

\* cv2.dilate / cv2.erode, one iteration: the maximum / minimum over the
\* kernel's pixels that lie inside the image (the default border value
\* leaves the pixels outside out of account)
Dilate(m, w, h, k) ==
    Array([i \in 1..(w * h) |-> SetMax({m[j] : j \in Under(k, i, w, h)})])

Erode(m, w, h, k) ==
    Array([i \in 1..(w * h) |-> SetMin({m[j] : j \in Under(k, i, w, h)})])

\* cv2.morphologyEx(MORPH_CLOSE, iterations=2): two dilations, two erosions
MorphClose2(m, w, h) ==
    Erode(Erode(Dilate(Dilate(m, w, h, Ellipse7), w, h, Ellipse7),
                w, h, Ellipse7), w, h, Ellipse7)

\* cv2.morphologyEx(MORPH_OPEN, iterations=1): an erosion, a dilation
MorphOpen1(m, w, h) == Dilate(Erode(m, w, h, Ellipse7), w, h, Ellipse7)

\* BORDER_REFLECT_101: the index of the pixel that stands for p in 0..n-1
RECURSIVE Reflect101(_, _)
Reflect101(p, n) ==
    IF n = 1 THEN 0
    ELSE IF p < 0 THEN Reflect101(-p, n)
    ELSE IF p >= n THEN Reflect101(2 * n - 2 - p, n)
    ELSE p

\* the 9-tap Gaussian of sigma 0.3 * ((9 - 1) * 0.5 - 1) + 0.8 = 1.7 in 8-bit
\* fixed point (the taps sum to 2^8)
GaussKernel == <<4, 13, 30, 51, 60, 51, 30, 13, 4>>

\* cv2.GaussianBlur(m, (9, 9), 0): a row pass and a column pass in fixed
\* point, rounded once at the end
GaussianBlur(m, w, h) ==
    LET rowpass ==
            Array([i \in 1..(w * h) |->
                SumSeq(Array([t \in 1..9 |->
                    GaussKernel[t]
                    * At(m, w, RowOf(i, w), Reflect101(ColOf(i, w) + t - 5, w))]))])
    IN  Array([i \in 1..(w * h) |->
            (SumSeq(Array([t \in 1..9 |->
                 GaussKernel[t]
                 * At(rowpass, w, Reflect101(RowOf(i, w) + t - 5, h), ColOf(i, w))]))
             + 2 ^ 15) \div 2 ^ 16])

\* subj_mask = cv2.bitwise_not(red_bg_mask), at one pixel
bitwise_not(v) == 255 - v

\* (alpha * 255).astype(np.uint8) for alpha = subj_mask.astype(float32) / 255.0
AlphaByte(v) ==
    Trunc(FMulInt(FDiv(v, 255, SingleBits), 255, SingleBits))

\* the RGBA subject: the input's RGB and the feathered mask as alpha
remove_background_keep_subject(image) ==
    LET w  == image.w
        h  == image.h
        m0 == Array([i \in 1..(w * h) |->
                        RedMask(image.px[RowOf(i, w)][ColOf(i, w)])])
        m1 == MorphOpen1(MorphClose2(m0, w, h), w, h)
        m2 == Dilate(m1, w, h, Rect25)
        m3 == Array([i \in 1..(w * h) |-> bitwise_not(m2[i])])
        m4 == GaussianBlur(m3, w, h)
    IN  [w |-> w, h |-> h,
         px |-> [y \in 0..(h - 1) |-> [x \in 0..(w - 1) |->
                    image.px[y][x] \o <<AlphaByte(At(m4, w, y, x))>>]]]

----------------------------------------------------------------------------
(* The sizes of the images the other stages build. *)

\* np.dstack of the input's three channels and the mask: the input's size
SubjectSize(image) == <<image.w, image.h>>

\* a gradient array allocated as (width, height, 4)
GradientSizeSwapped(w, h) == <<h, w>>

\* np.zeros((height, width, 4)) read by Image.fromarray: width x height
GradientSize(w, h) == <<w, h>>

\* the subject is resized to the background's size when they differ, and
\* alpha_composite returns an image of that size
compose_subject_on_background(subject_rgba, background_rgba) ==
    LET subj == IF <<subject_rgba.w, subject_rgba.h>>
                   # <<background_rgba.w, background_rgba.h>>
                THEN NewImage(background_rgba.w, background_rgba.h)
                ELSE subject_rgba
    IN  NewImage(subj.w, subj.h)

Requests ==
    {None} \cup {Some(v) : v \in (-1..0) \cup {DimStep * k : k \in 1..MaxReq}}

InputDims == {DimStep * k : k \in 1..MaxDim}

Init ==
    /\ call = None
    /\ ret = None
    /\ pc = "load"
    /\ input_file \in [w : InputDims, h : InputDims]
    /\ width \in Requests
    /\ height \in Requests
    /\ heap = <<>>
    /\ base_img = None
    /\ subject = None
    /\ bg = None
    /\ composed = None
    /\ face_box = None
    /\ with_tie = None
    /\ output = None
    /\ writes = 0
    /\ log = <<>>

\* an exception propagates out of process(): nothing catches it
Raise(s) ==
    /\ pc' = "failed"
    /\ log' = Append(log, s)

Return(s) ==
    /\ pc' = StageAfter(s)
    /\ log' = Append(log, s)

\* base_img = Image.open(input_path)
Load ==
    /\ pc = "load"
    /\ \/ /\ heap' = Append(heap, NewImage(input_file.w, input_file.h))
          /\ base_img' = Some(Len(heap) + 1)
          /\ Return("load")
       \/ /\ Raise("load")
          /\ UNCHANGED <<heap, base_img>>
    /\ UNCHANGED <<input_file, width, height, subject, bg, composed, face_box,
                   with_tie, output, writes, call, ret>>

\* if width or height: ... base_img = base_img.resize(...)
Resize ==
    /\ pc = "resize"
    /\ LET img  == heap[base_img[1]]
           size == TargetSize(img.w, img.h, width, height)
       IN  IF size = None
           THEN /\ pc' = StageAfter("resize")
                /\ UNCHANGED <<heap, base_img, log>>
           ELSE IF ResizeRaises(size[1])
           THEN /\ Raise("resize")
                /\ UNCHANGED <<heap, base_img>>
           ELSE /\ heap' = Append(heap, NewImage(size[1][1], size[1][2]))
                /\ base_img' = Some(Len(heap) + 1)
                /\ Return("resize")
    /\ UNCHANGED <<input_file, width, height, subject, bg, composed, face_box,
                   with_tie, output, writes, call, ret>>

\* subject = remove_background_keep_subject(base_img)
Key ==
    /\ pc = "key"
    /\ LET size == SubjectSize(heap[base_img[1]])
       IN  heap' = Append(heap, NewImage(size[1], size[2]))
    /\ subject' = Some(Len(heap) + 1)
    /\ Return("key")
    /\ UNCHANGED <<input_file, width, height, base_img, bg, composed, face_box,
                   with_tie, output, writes, call, ret>>

\* bg = generate_linkedin_gradient_background(subject.width, subject.height)
Gradient ==
    /\ pc = "gradient"
    /\ LET size == GradientSize(heap[subject[1]].w, heap[subject[1]].h)
       IN  heap' = Append(heap, NewImage(size[1], size[2]))
    /\ bg' = Some(Len(heap) + 1)
    /\ Return("gradient")
    /\ UNCHANGED <<input_file, width, height, base_img, subject, composed,
                   face_box, with_tie, output, writes, call, ret>>

\* composed = compose_subject_on_background(subject, bg)
Composite ==
    /\ pc = "composite"
    /\ heap' = Append(heap, compose_subject_on_background(heap[subject[1]],
                                                          heap[bg[1]]))
    /\ composed' = Some(Len(heap) + 1)
    /\ Return("composite")
    /\ UNCHANGED <<input_file, width, height, base_img, subject, bg, face_box,
                   with_tie, output, writes, call, ret>>

\* face_box = detect_primary_face_bbox(composed.convert("RGB")); what the
\* cascade reports is the detector's choice
Detect ==
    /\ pc = "detect"
    /\ \E n \in 0..MaxFaces :
       \E faces \in [1..n -> CornerBoxes(heap[composed[1]].w, heap[composed[1]].h)] :
           face_box' = PrimaryFace(faces)
    /\ Return("detect")
    /\ UNCHANGED <<input_file, width, height, heap, base_img, subject, bg,
                   composed, with_tie, output, writes, call, ret>>

\* with_tie = draw_tie(composed, face_box)
Tie ==
    /\ pc = "tie"
    /\ heap' = Append(heap, draw_tie(heap[composed[1]], face_box))
    /\ with_tie' = Some(Len(heap) + 1)
    /\ Return("tie")
    /\ UNCHANGED <<input_file, width, height, base_img, subject, bg, composed,
                   face_box, output, writes, call, ret>>

\* with_tie.save(output_path)
Save ==
    /\ pc = "save"
    /\ \/ /\ output' = Some(heap[with_tie[1]])
          /\ writes' = writes + 1
          /\ Return("save")
       \/ /\ Raise("save")
          /\ UNCHANGED <<output, writes>>
    /\ UNCHANGED <<input_file, width, height, heap, base_img, subject, bg,
                   composed, face_box, with_tie, call, ret>>

Next == Load \/ Resize \/ Key \/ Gradient \/ Composite \/ Detect \/ Tie \/ Save

Spec == Init /\ [][Next]_vars

----------------------------------------------------------------------------
(* Properties of process(). *)

IsPrefix(a, b) == Len(a) <= Len(b) /\ a = SubSeq(b, 1, Len(a))

StagesNoResize == SelectSeq(Stages, LAMBDA s : s # "resize")

InOrder(l) == IsPrefix(l, Stages) \/ IsPrefix(l, StagesNoResize)

SizeOf(img) == <<img.w, img.h>>

\* C1: the stages run in the order load, optional resize, key, gradient,
\* composite, detect, tie, save, each at most once (no retry); the output
\* path is written at most once, by the save step after all the others; when
\* an earlier stage fails nothing is written.
C1_FixedOrder ==
    /\ InOrder(log)
    /\ pc \notin {"done", "failed"} => InOrder(Append(log, pc))
    /\ Len(log) >= 2 => (log[2] = "resize" <=> (Truthy(width) \/ Truthy(height)))
    /\ writes <= 1
    /\ (writes = 1) <=> (output # None)
    /\ writes = 1 =>
          /\ pc = "done"
          /\ log \in {Stages, StagesNoResize}
    /\ pc = "done" => writes = 1
    /\ pc = "failed" => log # <<>>
    /\ (pc = "failed" /\ log[Len(log)] # "save") => (writes = 0 /\ output = None)

C1_Witness ==
    /\ pc = "done"
    /\ writes = 1
    /\ log = Stages
    /\ face_box # None

\* C2 as stated: the saved image has the input's size when neither --width
\* nor --height is given and the requested size when both are given, and
\* every stage after the resize keeps the size.
C2_SavedSizeAsStated ==
    output # None =>
        /\ (width = None /\ height = None)
              => SizeOf(output[1]) = SizeOf(input_file)
        /\ (width # None /\ height # None)
              => SizeOf(output[1]) = <<width[1], height[1]>>
        /\ \A v \in {subject, bg, composed, with_tie} :
              SizeOf(heap[v[1]]) = SizeOf(heap[base_img[1]])

\* C2, amended: the saved image has the input's size when neither --width
\* nor --height is given and the requested size when both are given and
\* positive, and every stage after the resize keeps the size.
C2_SavedSize ==
    output # None =>
        /\ (width = None /\ height = None)
              => SizeOf(output[1]) = SizeOf(input_file)
        /\ (width # None /\ height # None /\ width[1] > 0 /\ height[1] > 0)
              => SizeOf(output[1]) = <<width[1], height[1]>>
        /\ SizeOf(output[1]) = SizeOf(heap[base_img[1]])
        /\ \A v \in {subject, bg, composed, with_tie} :
              SizeOf(heap[v[1]]) = SizeOf(heap[base_img[1]])

C2_Witness ==
    /\ output # None
    /\ width # None /\ height # None
    /\ width[1] > 0 /\ height[1] > 0
    /\ width[1] # height[1]
    /\ SizeOf(output[1]) # SizeOf(input_file)

\* C6: when detection finds no face the run does not fail: draw_tie draws the
\* tie at cx = floor(w / 2), cy = floor(0.42 * h) for an assumed face height
\* of floor(0.22 * h), and process() goes on to the save step.
C6_FallbackTie ==
    (face_box = None /\ pc \in {"save", "done", "failed"} /\ log # <<>>
        /\ ("detect" \in {log[i] : i \in 1..Len(log)}))
    => /\ with_tie # None
       /\ LET img == heap[with_tie[1]]
          IN  /\ img.tie # None
              /\ img.tie[1].cx = img.w \div 2
              /\ img.tie[1].cy = (42 * img.h) \div 100
              /\ img.tie[1].face_height = (22 * img.h) \div 100
       /\ pc = "failed" => log[Len(log)] = "save"

C6_Witness ==
    /\ pc = "done"
    /\ face_box = None
    /\ output # None
    /\ output[1].tie # None
    /\ output[1].tie[1].cy = (42 * output[1].h) \div 100
    /\ output[1].tie[1].cy > 0

\* C10: draw_tie operates in place: after it returns, the image passed in
\* carries the tie and is the buffer returned.
C10_InPlace ==
    with_tie # None =>
        /\ with_tie = composed
        /\ heap[composed[1]].tie # None

----------------------------------------------------------------------------
(* The functions called directly, each on every input within the bounds.    *)

\* process() has not been entered
Idle ==
    /\ pc = "idle"
    /\ input_file = None
    /\ width = None
    /\ height = None
    /\ heap = <<>>
    /\ base_img = None
    /\ subject = None
    /\ bg = None
    /\ composed = None
    /\ face_box = None
    /\ with_tie = None
    /\ output = None
    /\ writes = 0
    /\ log = <<>>

\* the resize arithmetic of process(): photos up to ResizeMaxDim a side,
\* exactly one of --width / --height given, a positive int up to ResizeMaxReq
ResizeMaxDim == 11

ResizeMaxReq == 15

ResizeInit ==
    /\ Idle
    /\ ret = None
    /\ \E W0 \in 1..ResizeMaxDim, H0 \in 1..ResizeMaxDim, v \in 1..ResizeMaxReq :
          \/ call = [W0 |-> W0, H0 |-> H0, width |-> Some(v), height |-> None]
          \/ call = [W0 |-> W0, H0 |-> H0, width |-> None, height |-> Some(v)]

ResizeCall ==
    /\ ret = None
    /\ ret' = Some(TargetSize(call.W0, call.H0, call.width, call.height))
    /\ UNCHANGED <<pvars, call>>

ResizeNext == ResizeCall

SpecResize == ResizeInit /\ [][ResizeNext]_vars

\* detect_primary_face_bbox on what the cascade reports for an image of
\* MinSize + FaceGrow pixels a side
FaceInit ==
    /\ Idle
    /\ ret = None
    /\ \E n \in 0..MaxFaces :
          call \in [1..n -> BoxesIn(MinSize + FaceGrow, MinSize + FaceGrow)]

FaceCall ==
    /\ ret = None
    /\ ret' = Some(PrimaryFace(call))
    /\ UNCHANGED <<pvars, call>>

FaceNext == FaceCall

SpecFace == FaceInit /\ [][FaceNext]_vars

\* draw_tie on images up to MaxTieH pixels high, with no face box or one the
\* cascade can report
MaxTieH == 100

TieInit ==
    /\ Idle
    /\ ret = None
    /\ \E h \in 1..MaxTieH :
          LET w == MinSize + FaceGrow
          IN  call \in [w : {w}, h : {h},
                        box : {None} \cup {Some(b) : b \in BoxesIn(w, h)}]

TieCall ==
    /\ ret = None
    /\ ret' = Some(DrawTie(call.w, call.h, call.box))
    /\ UNCHANGED <<pvars, call>>

TieNext == TieCall

SpecTie == TieInit /\ [][TieNext]_vars

\* generate_linkedin_gradient_background on images up to MaxGradW x MaxGradH
\* between the default colors and grays
MaxGradW == 2

MaxGradH == 15

GradColors == {DefaultTop, DefaultBottom, <<11, 11, 11>>, <<0, 0, 0>>}

GradInit ==
    /\ Idle
    /\ ret = None
    /\ call \in [width : 1..MaxGradW, height : 1..MaxGradH,
                 top_color : GradColors, bottom_color : GradColors]

GradCall ==
    /\ ret = None
    /\ ret' = Some(generate_linkedin_gradient_background(
                       call.width, call.height, call.top_color,
                       call.bottom_color))
    /\ UNCHANGED <<pvars, call>>

GradNext == GradCall

SpecGradient == GradInit /\ [][GradNext]_vars

\* remove_background_keep_subject on images of up to MaxKeyPixels pixels in
\* the colors of KeyPalette: two reds, one in each hue band, a skin tone and
\* a red too dark to be keyed
MaxKeyPixels == 5

KeyPalette == {<<255, 0, 0>>, <<180, 20, 40>>, <<224, 172, 105>>, <<30, 0, 0>>}

KeyInit ==
    /\ Idle
    /\ ret = None
    /\ \E w \in 1..MaxKeyPixels, h \in 1..MaxKeyPixels :
          /\ w * h <= MaxKeyPixels
          /\ call \in [w : {w}, h : {h},
                       px : [0..(h - 1) -> [0..(w - 1) -> KeyPalette]]]

KeyCall ==
    /\ ret = None
    /\ ret' = Some(remove_background_keep_subject(call))
    /\ UNCHANGED <<pvars, call>>

KeyNext == KeyCall

SpecKey == KeyInit /\ [][KeyNext]_vars

----------------------------------------------------------------------------
(* Properties of the functions. *)

\* C3: with only --width given the target size is
\* (width, floor(H0 * width / W0)), with only --height given it is
\* (floor(W0 * height / H0), height).
C3_AspectRatio ==
    ret # None =>
        /\ call.width # None =>
              ret[1] = Some(<<call.width[1],
                              (call.H0 * call.width[1]) \div call.W0>>)
        /\ call.height # None =>
              ret[1] = Some(<<(call.W0 * call.height[1]) \div call.H0,
                              call.height[1]>>)

\* C4: for height >= 2, row 0 of the gradient is the top color, the last
\* row is the bottom color, each color channel is monotone from row to row,
\* and every pixel has alpha 255.
C4_Gradient ==
    (ret # None /\ call.height >= 2) =>
        LET g    == ret[1]
            last == call.height - 1
            cols == 0..(call.width - 1)
        IN  /\ \A col \in cols : g[0][col] = call.top_color \o <<255>>
            /\ \A col \in cols : g[last][col] = call.bottom_color \o <<255>>
            /\ \A col \in cols : \A c \in 1..3 :
                  \/ \A r \in 0..(last - 1) : g[r][col][c] <= g[r + 1][col][c]
                  \/ \A r \in 0..(last - 1) : g[r][col][c] >= g[r + 1][col][c]
            /\ \A r \in 0..last : \A col \in cols : g[r][col][4] = 255

\* C5: detect_primary_face_bbox returns None exactly when the cascade reports
\* no box, and otherwise a reported box whose area is at least that of every
\* reported box.
C5_LargestFace ==
    ret # None =>
        /\ (ret[1] = None) <=> (Len(call) = 0)
        /\ ret[1] # None =>
              /\ \E i \in 1..Len(call) : call[i] = ret[1][1]
              /\ \A j \in 1..Len(call) : Area(ret[1][1]) >= Area(call[j])

C5_Witness ==
    /\ ret # None
    /\ Len(call) = 2
    /\ Area(call[1]) < Area(call[2])
    /\ ret[1] = Some(call[2])

\* C7: the blade's tip is at y <= h - 6.
C7_TipClipped == ret # None => ret[1].tip_y <= call.h - 6

C7_Witness ==
    /\ ret # None
    /\ call.box # None
    /\ ret[1].knot_bottom_y + ret[1].tie_length > call.h - 6
    /\ ret[1].tip_y = call.h - 6

\* a pixel of the red backdrop: hue in 0..10 or 170..180, saturation >= 60,
\* value >= 40
SolidRed(px) ==
    LET hsv == RGB2HSV(px)
    IN  /\ hsv[1] \in (0..10) \cup (170..180)
        /\ hsv[2] >= 60
        /\ hsv[3] >= 40

Pixels(img) == (0..(img.h - 1)) \X (0..(img.w - 1))

\* C8: when every pixel of the input is solid red, the subject's alpha is 0
\* at every pixel and its RGB channels are the input's.
C8_SolidRedKeyedOut ==
    (ret # None /\ \A q \in Pixels(call) : SolidRed(call.px[q[1]][q[2]])) =>
        /\ ret[1].w = call.w /\ ret[1].h = call.h
        /\ \A q \in Pixels(call) :
              /\ ret[1].px[q[1]][q[2]][4] = 0
              /\ SubSeq(ret[1].px[q[1]][q[2]], 1, 3) = call.px[q[1]][q[2]]

C8_Witness ==
    /\ ret # None
    /\ call.w * call.h >= 4
    /\ call.h >= 2
    /\ \A q \in Pixels(call) : SolidRed(call.px[q[1]][q[2]])
    /\ \E q \in Pixels(call) : call.px[q[1]][q[2]] = <<180, 20, 40>>
    /\ \A q \in Pixels(call) : ret[1].px[q[1]][q[2]][4] = 0

\* C9: the blade is a downward kite: its tip and its two shoulders are at or
\* below the knot's bottom edge.
C9_DownwardKite ==
    ret # None =>
        /\ ret[1].tip_y >= ret[1].knot_bottom_y
        /\ ret[1].shoulder_y >= ret[1].knot_bottom_y
        /\ ret[1].shoulder_y = ret[1].tip_y - (4 * ret[1].tie_bottom_width) \div 10

====
